---- MODULE Spec2Model ----
(***************************************************************************)
(* Model of robotic_arm_orientation.py: the elementary homogeneous         *)
(* transformation matrices built by HTM.__init__, their composition by     *)
(* CalculatedHTM.__init__ (numpy.dot) and the chain assembly of main().    *)
(*                                                                         *)
(* Numbers.  HTM rounds every cosine and sine to 5 decimals, so a number   *)
(* is modelled as the integer count of its hundred-thousandths: the        *)
(* number 1 is Scale, the number 0.86603 is 86603.  Values that need more  *)
(* than 32 bits (products of two or three such numbers) are kept as a pair *)
(* <<hi, lo>> standing for hi * Limb^2 + lo with 0 <= lo < Limb^2.         *)
(*                                                                         *)
(* Absent values.  Python's None is the empty sequence and a present angle *)
(* t is <<t>>.  An object without a mat attribute has hasMat = FALSE.      *)
(***************************************************************************)
EXTENDS Integers, Sequences, FiniteSets, TLC

VARIABLES
    htmIn,      \* arguments of the HTM construction under study
    htmOut,     \* what that construction left behind
    dotIn,      \* the two operands r1, r2 of the composition under study
    dotOut,     \* what that composition left behind
    pc,         \* position of main()
    nJoints,    \* number of joints of the arm that main() assembles
    joints,     \* the elementary transforms T_01, T_12, ... built so far
    frameList,  \* main()'s frameList
    raised,     \* the exception that ended main(), "none" while it runs
    stdout,     \* what has been printed
    shown       \* the frame lists handed to printFrameList and graph_frames

vars == <<htmIn, htmOut, dotIn, dotOut, pc, nJoints, joints, frameList,
          raised, stdout, shown>>

-----------------------------------------------------------------------------
(* Bounds of the model *)

MaxLen == 5
MaxJoints == 3
MaxGen == 1

-----------------------------------------------------------------------------
(* Numbers *)

\* round(x, 5): five decimals are kept, 10^5 units make the number 1.
Scale == 100000

Limb == Scale \div 100
Limb2 == Limb * Limb

None == <<>>
Some(x) == <<x>>

WNorm(h, l) == <<h + (l \div Limb2), l % Limb2>>

\* the exact product of two numbers, as a wide value in units of 1/Scale^2
WMul(x, y) ==
    LET xa == x \div Limb
        xb == x % Limb
        ya == y \div Limb
        yb == y % Limb
        mid == xa * yb + xb * ya
    IN  WNorm(xa * ya + (mid \div Limb), (mid % Limb) * Limb + xb * yb)

WAdd(a, b) == WNorm(a[1] + b[1], a[2] + b[2])
WNeg(a) == WNorm(0 - a[1], 0 - a[2])
WSub(a, b) == WAdd(a, WNeg(b))

\* a wide value times a number
WMulS(w, x) ==
    LET xa == x \div Limb
        xb == x % Limb
        p == w[2] * xa
    IN  WNorm(w[1] * x + (p \div Limb), (p % Limb) * Limb + w[2] * xb)

\* |w - th * Limb^2| <= eh * Limb^2
WNear(w, th, eh) ==
    LET d == w[1] - th
    IN  /\ d >= 0 - eh
        /\ \/ d < eh
           \/ d = eh /\ w[2] = 0

\* the product of two numbers as a number; exact whenever the product has
\* at most five decimals, as it has when one factor is a whole number
FxMul(x, y) ==
    LET w == WMul(x, y)
    IN  w[1] * (Limb2 \div Scale) + (w[2] \div Scale)

-----------------------------------------------------------------------------
(* Arrays.  A matrix is the sequence of its rows; ndim is the number of    *)
(* dimensions numpy sees: 0 a scalar, 1 a vector, 2 a matrix.              *)

Arr0(x) == [ndim |-> 0, val |-> x]
Arr1(v) == [ndim |-> 1, val |-> v]
Arr2(rows) == [ndim |-> 2, val |-> rows]
NoMat == [ndim |-> 0 - 1, val |-> <<>>]

Rows(a) == Len(a.val)
Cols(a) == IF Len(a.val) = 0 THEN 0 ELSE Len(a.val[1])

-----------------------------------------------------------------------------
(* class HTM *)

\* str.upper() on the one-letter axis codes that are used
Upper(ch) ==
    CASE ch = "x" -> "X"
      [] ch = "y" -> "Y"
      [] ch = "z" -> "Z"
      [] ch = "i" -> "I"
      [] ch = "w" -> "W"
      [] OTHER -> ch

\* round(math.cos(math.radians(deg)), 5), in hundred-thousandths
RoundCosTable(deg) ==
    CASE deg = 0 - 90 -> 0
      [] deg = 0 - 60 -> 50000
      [] deg = 0 -> 100000
      [] deg = 30 -> 86603
      [] deg = 90 -> 0
      [] deg = 100 -> 0 - 17365
      [] deg = 150 -> 0 - 86603
      [] deg = 180 -> 0 - 100000
      [] deg = 270 -> 0

\* the cosine cut to one decimal instead of rounded to five
RoundCos_OneDecimal(deg) == (RoundCosTable(deg) \div 10000) * 10000

RoundCos(deg) == RoundCosTable(deg)

\* round(math.sin(math.radians(deg)), 5), in hundred-thousandths
RoundSin(deg) ==
    CASE deg = 0 - 90 -> 0 - 100000
      [] deg = 0 - 60 -> 0 - 86603
      [] deg = 0 -> 0
      [] deg = 30 -> 50000
      [] deg = 90 -> 100000
      [] deg = 100 -> 98481
      [] deg = 150 -> 50000
      [] deg = 180 -> 0
      [] deg = 270 -> 0 - 100000

\* a sign slip: the sine where its negation belongs
RoundNegSin_SignSlip(deg) == RoundSin(deg)

\* round(-math.sin(math.radians(deg)), 5): rounding is symmetric about 0
RoundNegSin(deg) == 0 - RoundSin(deg)

\* the outcome of HTM(objName, matrixType, segmentLength, theta):
\* raised names the exception that left the constructor ("none" when it
\* returned an object), printed tells whether the else branch printed, and
\* hasMat whether the object got its mat attribute
HTMInit(objName, matrixType, segmentLength, theta) ==
    LET mt == Upper(matrixType)
        self == [objName |-> objName, matrixType |-> mt,
                 segL |-> segmentLength, theta |-> theta]
        built(rows) == self @@ [hasMat |-> TRUE, mat |-> Arr2(rows),
                                printed |-> FALSE, raised |-> "none"]
        \* math.cos(None) raises TypeError
        typeError == self @@ [hasMat |-> FALSE, mat |-> NoMat,
                              printed |-> FALSE, raised |-> "TypeError"]
        one == Scale
        segL == segmentLength
    IN  IF mt = "X" THEN
            IF theta = None THEN typeError
            ELSE LET c == RoundCos(theta[1])
                     s == RoundSin(theta[1])
                     ms == RoundNegSin(theta[1])
                 IN  built(<< <<one, 0, 0, segL>>,
                              <<0, c, ms, 0>>,
                              <<0, s, c, 0>>,
                              <<0, 0, 0, one>> >>)
        ELSE IF mt = "Y" THEN
            IF theta = None THEN typeError
            ELSE LET c == RoundCos(theta[1])
                     s == RoundSin(theta[1])
                     ms == RoundNegSin(theta[1])
                 IN  built(<< <<c, 0, s, FxMul(segL, c)>>,
                              <<0, one, 0, 0>>,
                              <<ms, 0, c, FxMul(segL, s)>>,
                              <<0, 0, 0, one>> >>)
        ELSE IF mt = "Z" THEN
            IF theta = None THEN typeError
            ELSE LET c == RoundCos(theta[1])
                     s == RoundSin(theta[1])
                     ms == RoundNegSin(theta[1])
                 IN  built(<< <<c, ms, 0, FxMul(segL, c)>>,
                              <<s, c, 0, FxMul(segL, s)>>,
                              <<0, 0, one, 0>>,
                              <<0, 0, 0, one>> >>)
        ELSE IF mt = "I" /\ theta = None THEN
            built(<< <<one, 0, 0, segL>>,
                     <<0, one, 0, 0>>,
                     <<0, 0, one, 0>>,
                     <<0, 0, 0, one>> >>)
        ELSE
            \* print('Something went wrong in the definition of ...')
            self @@ [hasMat |-> FALSE, mat |-> NoMat,
                     printed |-> TRUE, raised |-> "none"]

-----------------------------------------------------------------------------
(* class CalculatedHTM *)

RECURSIVE DotSeq(_, _)
\* the sum of the products of two equally long sequences of numbers
DotSeq(u, v) ==
    IF Len(u) = 0 THEN 0
    ELSE FxMul(Head(u), Head(v)) + DotSeq(Tail(u), Tail(v))

Column(m, j) == [k \in 1..Len(m) |-> m[k][j]]

ScaleSeq(x, v) == [k \in 1..Len(v) |-> FxMul(x, v[k])]

\* a scalar times an array of any dimension
ScaleArr(x, a) ==
    IF a.ndim = 0 THEN Arr0(FxMul(x, a.val))
    ELSE IF a.ndim = 1 THEN Arr1(ScaleSeq(x, a.val))
    ELSE Arr2([i \in 1..Rows(a) |-> ScaleSeq(x, a.val[i])])

\* the operands exchanged: right x left
MatMul_Swapped(a, b) ==
    Arr2([i \in 1..Rows(b) |->
            [j \in 1..Cols(a) |-> DotSeq(b.val[i], Column(a.val, j))]])

\* the element-wise product (numpy.multiply) in place of the matrix product
MatMul_Elementwise(a, b) ==
    Arr2([i \in 1..Rows(a) |->
            [j \in 1..Cols(b) |-> FxMul(a.val[i][j], b.val[i][j])]])

\* the matrix product of two matrices whose shapes are aligned
MatMul(a, b) ==
    Arr2([i \in 1..Rows(a) |->
            [j \in 1..Cols(b) |-> DotSeq(a.val[i], Column(b.val, j))]])

Returned(a) == [raised |-> "none", out |-> a]
ShapesNotAligned == [raised |-> "ValueError", out |-> NoMat]

\* numpy.dot(a, b): a scalar operand multiplies element by element; vectors
\* and matrices are contracted over the last axis of a and the first of b,
\* and ValueError is raised when those two lengths differ
NpDot(a, b) ==
    IF a.ndim = 0 THEN Returned(ScaleArr(a.val, b))
    ELSE IF b.ndim = 0 THEN Returned(ScaleArr(b.val, a))
    ELSE IF a.ndim = 1 /\ b.ndim = 1 THEN
        IF Len(a.val) = Len(b.val)
        THEN Returned(Arr0(DotSeq(a.val, b.val)))
        ELSE ShapesNotAligned
    ELSE IF a.ndim = 2 /\ b.ndim = 1 THEN
        IF Cols(a) = Len(b.val)
        THEN Returned(Arr1([i \in 1..Rows(a) |-> DotSeq(a.val[i], b.val)]))
        ELSE ShapesNotAligned
    ELSE IF a.ndim = 1 /\ b.ndim = 2 THEN
        IF Len(a.val) = Rows(b)
        THEN Returned(Arr1([j \in 1..Cols(b) |->
                              DotSeq(a.val, Column(b.val, j))]))
        ELSE ShapesNotAligned
    ELSE
        IF Cols(a) = Rows(b)
        THEN Returned(MatMul(a, b))
        ELSE ShapesNotAligned

\* the outcome of CalculatedHTM(objName, r1, r2)
CalculatedHTMInit(objName, r1, r2) ==
    LET d == NpDot(r1, r2)
    IN  [objName |-> objName, r1 |-> r1, r2 |-> r2,
         hasMat |-> d.raised = "none", mat |-> d.out, raised |-> d.raised]

-----------------------------------------------------------------------------
(* Inputs *)

Types == {"x", "y", "z", "i", "w", "X", "Y", "Z", "I", "W"}
Lengths == {l * Scale : l \in (0 - MaxLen)..MaxLen}
RightAngles == {0 - 90, 0, 90, 180, 270}
Angles == RightAngles \cup {0 - 60, 30, 100, 150}
Thetas == {None} \cup {Some(t) : t \in Angles}

HTMInputs == [matrixType : Types, segmentLength : Lengths, theta : Thetas]

\* whole-number 4x4 matrices that are no homogeneous transforms
Gen(g) ==
    Arr2([i \in 1..4 |-> [j \in 1..4 |-> (((i * i + 2 * j + g) % 5) - 2) * Scale]])

Mat(matrixType, l, theta) ==
    HTMInit(<<"T", 0, 1>>, matrixType, l * Scale, theta).mat

\* the operands of the compositions that are tried: 4x4 matrices, then a
\* scalar, a vector and matrices of other shapes
DotOperands ==
    [g \in 1..(MaxGen + 1) |-> Gen(g - 1)]
    \o << Mat("z", 1, Some(90)), Mat("y", 2, Some(0 - 90)),
          Mat("x", 1, Some(180)), Mat("i", 3, None),
          Arr0(2 * Scale),
          Arr1(<<Scale, 0, 2 * Scale, Scale>>),
          Arr2(<< <<Scale>>, <<2 * Scale>>, <<0>>, <<Scale>> >>),
          Arr2(<< <<Scale, 0, 0 - Scale, 2 * Scale>> >>),
          Arr2(<< <<Scale, 0, 0>>, <<0, 0, Scale>>, <<0, Scale, 0>> >>),
          Arr2(<< <<Scale, 0, 0>>, <<0, Scale, 0>>, <<0, 0, Scale>>,
                  <<Scale, Scale, Scale>> >>) >>

Joint(matrixType, l, theta) ==
    [matrixType |-> matrixType, segmentLength |-> l * Scale, theta |-> theta]

\* the joints an arm is assembled from: six valid ones, then an unknown
\* axis code (twice), an I joint with an angle and an X joint without one
ChainJoints ==
    {Joint("z", 1, Some(90)), Joint("Y", 2, Some(0 - 90)),
     Joint("x", 1, Some(180)), Joint("y", 1, Some(90)),
     Joint("i", 2, None), Joint("Z", 2, Some(0 - 90)),
     Joint("w", 1, Some(90)), Joint("W", 2, None),
     Joint("i", 1, Some(90)), Joint("x", 1, None)}

-----------------------------------------------------------------------------
(* One construction of an elementary transform *)

MainIdle ==
    /\ pc = "idle"
    /\ nJoints = 0
    /\ joints = <<>>
    /\ frameList = <<>>
    /\ raised = "none"
    /\ stdout = <<>>
    /\ shown = <<>>

InitHTM ==
    /\ htmIn \in HTMInputs
    /\ htmOut = <<>>
    /\ dotIn = <<>>
    /\ dotOut = <<>>
    /\ MainIdle

Construct ==
    /\ htmOut = <<>>
    /\ htmOut' = <<HTMInit(<<"T", 0, 1>>, htmIn.matrixType,
                           htmIn.segmentLength, htmIn.theta)>>
    /\ UNCHANGED <<htmIn, dotIn, dotOut, pc, nJoints, joints, frameList,
                   raised, stdout, shown>>

NextHTM == Construct

SpecHTM == InitHTM /\ [][NextHTM]_vars

-----------------------------------------------------------------------------
(* One composition *)

InitDot ==
    /\ \E a, b \in 1..Len(DotOperands) :
         dotIn = <<DotOperands[a], DotOperands[b]>>
    /\ dotOut = <<>>
    /\ htmIn = <<>>
    /\ htmOut = <<>>
    /\ MainIdle

ComposeOnce ==
    /\ dotOut = <<>>
    /\ dotOut' = <<CalculatedHTMInit(<<"T", 0, 2>>, dotIn[1], dotIn[2])>>
    /\ UNCHANGED <<htmIn, htmOut, dotIn, pc, nJoints, joints, frameList,
                   raised, stdout, shown>>

NextDot == ComposeOnce

SpecDot == InitDot /\ [][NextDot]_vars

-----------------------------------------------------------------------------
(* main(): the assembly of the chain.  The joints that main() spells out   *)
(* as literals are the input; they are drawn when they are constructed.    *)

Init ==
    /\ pc = "R_00"
    /\ nJoints \in 1..MaxJoints
    /\ joints = <<>>
    /\ frameList = <<>>
    /\ raised = "none"
    /\ stdout = <<>>
    /\ shown = <<>>
    /\ htmIn = <<>>
    /\ htmOut = <<>>
    /\ dotIn = <<>>
    /\ dotOut = <<>>

Crash(exc) ==
    /\ raised' = exc
    /\ pc' = "crashed"

Printed(T) ==
    IF T.printed THEN Append(stdout, <<"Something went wrong", T.objName>>)
    ELSE stdout

\* R_00 = HTM('R_00','i',0); frameList.append(R_00)
MakeWorld ==
    /\ pc = "R_00"
    /\ LET R_00 == HTMInit(<<"R", 0, 0>>, "i", 0, None)
       IN  /\ frameList' = Append(frameList, R_00)
           /\ stdout' = Printed(R_00)
    /\ pc' = "T_01"
    /\ UNCHANGED <<htmIn, htmOut, dotIn, dotOut, nJoints, joints, raised, shown>>

\* T_01 = HTM('T_01', ...); frameList.append(T_01)
MakeFirstJoint ==
    /\ pc = "T_01"
    /\ \E jt \in ChainJoints :
         LET T_01 == HTMInit(<<"T", 0, 1>>, jt.matrixType, jt.segmentLength, jt.theta)
         IN  IF T_01.raised # "none"
             THEN /\ Crash(T_01.raised)
                  /\ UNCHANGED <<joints, frameList, stdout>>
             ELSE /\ joints' = Append(joints, T_01)
                  /\ frameList' = Append(frameList, T_01)
                  /\ stdout' = Printed(T_01)
                  /\ pc' = IF nJoints > 1 THEN "joints" ELSE "print"
                  /\ UNCHANGED raised
    /\ UNCHANGED <<htmIn, htmOut, dotIn, dotOut, nJoints, shown>>

\* T_12 = HTM('T_12', ...) and the joints after it
MakeJoint ==
    /\ pc = "joints"
    /\ \E jt \in ChainJoints :
         LET j == Len(joints)
             T == HTMInit(<<"T", j, j + 1>>, jt.matrixType, jt.segmentLength, jt.theta)
         IN  IF T.raised # "none"
             THEN /\ Crash(T.raised)
                  /\ UNCHANGED <<joints, stdout>>
             ELSE /\ joints' = Append(joints, T)
                  /\ stdout' = Printed(T)
                  /\ pc' = IF j + 1 = nJoints THEN "compose" ELSE "joints"
                  /\ UNCHANGED raised
    /\ UNCHANGED <<htmIn, htmOut, dotIn, dotOut, nJoints, frameList, shown>>

\* T_0k = CalculatedHTM('T_0k', T_0(k-1).mat, T_(k-1)k.mat); frameList.append(T_0k)
Compose ==
    /\ pc = "compose"
    /\ LET k == Len(frameList)
           left == frameList[k]
           right == joints[k]
       IN  IF ~left.hasMat \/ ~right.hasMat
           THEN \* reading .mat of an object that has none
                /\ Crash("AttributeError")
                /\ UNCHANGED frameList
           ELSE LET T_0k == CalculatedHTMInit(<<"T", 0, k>>, left.mat, right.mat)
                IN  IF T_0k.raised # "none"
                    THEN /\ Crash(T_0k.raised)
                         /\ UNCHANGED frameList
                    ELSE /\ frameList' = Append(frameList, T_0k)
                         /\ pc' = IF k = nJoints THEN "print" ELSE "compose"
                         /\ UNCHANGED raised
    /\ UNCHANGED <<htmIn, htmOut, dotIn, dotOut, nJoints, joints, stdout, shown>>

\* printFrameList(frameList)
PrintFrameList ==
    /\ pc = "print"
    /\ shown' = Append(shown, <<"printFrameList", frameList>>)
    /\ stdout' = Append(stdout, <<"Frame List",
                                  [i \in 1..Len(frameList) |-> frameList[i].objName]>>)
    /\ pc' = "graph"
    /\ UNCHANGED <<htmIn, htmOut, dotIn, dotOut, nJoints, joints, frameList, raised>>

\* graph_frames(frameList): the loop reads R[i].mat of every frame
GraphFrames ==
    /\ pc = "graph"
    /\ shown' = Append(shown, <<"graph_frames", frameList>>)
    /\ IF \E i \in 1..Len(frameList) : ~frameList[i].hasMat
       THEN Crash("AttributeError")
       ELSE pc' = "done" /\ UNCHANGED raised
    /\ UNCHANGED <<htmIn, htmOut, dotIn, dotOut, nJoints, joints, frameList, stdout>>

Next ==
    \/ MakeWorld
    \/ MakeFirstJoint
    \/ MakeJoint
    \/ Compose
    \/ PrintFrameList
    \/ GraphFrames

Spec == Init /\ [][Next]_vars

-----------------------------------------------------------------------------
(* Notions the properties are stated in *)

Whole(x) == x \div Scale
IsWhole(x) == x % Scale = 0

\* cos and sin of a multiple of 90 degrees, as whole numbers
ExactCos(deg) ==
    CASE deg % 360 = 0 -> 1
      [] deg % 360 = 90 -> 0
      [] deg % 360 = 180 -> 0 - 1
      [] deg % 360 = 270 -> 0

ExactSin(deg) ==
    CASE deg % 360 = 0 -> 0
      [] deg % 360 = 90 -> 1
      [] deg % 360 = 180 -> 0
      [] deg % 360 = 270 -> 0 - 1

Revolute == {"X", "Y", "Z"}
Recognized == Revolute \cup {"I"}

\* the axis code is recognized and the angle is present exactly when needed
ValidJoint(in) ==
    \/ Upper(in.matrixType) \in Revolute /\ in.theta # None
    \/ Upper(in.matrixType) = "I" /\ in.theta = None

Is4x4(a) ==
    /\ a.ndim = 2
    /\ Rows(a) = 4
    /\ \A i \in 1..4 : Len(a.val[i]) = 4

Block(a) == [i \in 1..3 |-> [j \in 1..3 |-> a.val[i][j]]]
Translation(a) == [i \in 1..3 |-> a.val[i][4]]
Identity3 == [i \in 1..3 |-> [j \in 1..3 |-> IF i = j THEN Scale ELSE 0]]
Identity4 == [i \in 1..4 |-> [j \in 1..4 |-> IF i = j THEN Scale ELSE 0]]
BottomRowOk(a) == a.val[4] = <<0, 0, 0, Scale>>

\* the number 1 squared and cubed, in units of Limb^2
UnitSq == (Scale \div Limb) * (Scale \div Limb)
UnitCube == Scale * UnitSq
\* the tolerance 1e-4 of the orthonormality test, in the same units
OrthoTol == UnitSq \div 10000
DetTol == UnitCube \div 10000

ColDot(R, i, j) ==
    WAdd(WAdd(WMul(R[1][i], R[1][j]), WMul(R[2][i], R[2][j])),
         WMul(R[3][i], R[3][j]))

RowDot(R, i, j) ==
    WAdd(WAdd(WMul(R[i][1], R[j][1]), WMul(R[i][2], R[j][2])),
         WMul(R[i][3], R[j][3]))

\* columns and rows are unit vectors, pairwise orthogonal, within eh
Orthonormal(R, eh) ==
    \A i, j \in 1..3 :
        /\ WNear(ColDot(R, i, j), IF i = j THEN UnitSq ELSE 0, eh)
        /\ WNear(RowDot(R, i, j), IF i = j THEN UnitSq ELSE 0, eh)

Minor(R, r1, r2, c1, c2) ==
    WSub(WMul(R[r1][c1], R[r2][c2]), WMul(R[r1][c2], R[r2][c1]))

\* the determinant by expansion along the first row, in units of 1/Scale^3
Det3(R) ==
    WAdd(WSub(WMulS(Minor(R, 2, 3, 2, 3), R[1][1]),
              WMulS(Minor(R, 2, 3, 1, 3), R[1][2])),
         WMulS(Minor(R, 2, 3, 1, 2), R[1][3]))

\* a valid homogeneous transform, exactly
Homogeneous(a) ==
    /\ Is4x4(a)
    /\ BottomRowOk(a)
    /\ Orthonormal(Block(a), 0)
    /\ WNear(Det3(Block(a)), UnitCube, 0)

HTMBuilt == htmOut # <<>>
DotDone == dotOut # <<>>

-----------------------------------------------------------------------------
(* C1 *)

\* the matrix the specification prescribes for a multiple of 90 degrees
Prescribed(mt, l, deg) ==
    LET c == ExactCos(deg)
        s == ExactSin(deg)
        rot == CASE mt = "X" -> << <<1, 0, 0>>, <<0, c, 0 - s>>, <<0, s, c>> >>
                 [] mt = "Y" -> << <<c, 0, s>>, <<0, 1, 0>>, <<0 - s, 0, c>> >>
                 [] mt = "Z" -> << <<c, 0 - s, 0>>, <<s, c, 0>>, <<0, 0, 1>> >>
                 [] mt = "I" -> << <<1, 0, 0>>, <<0, 1, 0>>, <<0, 0, 1>> >>
        tr == CASE mt = "X" -> <<l, 0, 0>>
                [] mt = "Y" -> <<l * c, 0, l * s>>
                [] mt = "Z" -> <<l * c, l * s, 0>>
                [] mt = "I" -> <<l, 0, 0>>
    IN  [i \in 1..4 |->
           [j \in 1..4 |->
              Scale * (IF i = 4 THEN (IF j = 4 THEN 1 ELSE 0)
                       ELSE IF j = 4 THEN tr[i] ELSE rot[i][j])]]

\* C1: an elementary transform built from axis code X, Y, Z (with an angle
\* that is a multiple of 90 degrees) or I (without an angle), in upper or
\* lower case, with link length L, has exactly the prescribed matrix; X with
\* L = 5 and 0 degrees gives [[1,0,0,5],[0,1,0,0],[0,0,1,0],[0,0,0,1]].
C1_PrescribedMatrix ==
    /\ (HTMBuilt /\ ValidJoint(htmIn)
          /\ (htmIn.theta # None => htmIn.theta[1] \in RightAngles))
       => /\ htmOut[1].raised = "none"
          /\ htmOut[1].hasMat
          /\ htmOut[1].mat.ndim = 2
          /\ htmOut[1].mat.val =
               Prescribed(Upper(htmIn.matrixType), Whole(htmIn.segmentLength),
                          IF htmIn.theta = None THEN 0 ELSE htmIn.theta[1])
    /\ (HTMBuilt /\ Upper(htmIn.matrixType) = "X"
          /\ htmIn.segmentLength = 5 * Scale /\ htmIn.theta = Some(0))
       => htmOut[1].mat.val =
            << <<Scale, 0, 0, 5 * Scale>>, <<0, Scale, 0, 0>>,
               <<0, 0, Scale, 0>>, <<0, 0, 0, Scale>> >>

C1_Witness ==
    /\ HTMBuilt
    /\ htmIn.matrixType = "y"
    /\ htmIn.segmentLength = 2 * Scale
    /\ htmIn.theta = Some(90)
    /\ htmOut[1].hasMat
    /\ Translation(htmOut[1].mat) = <<0, 0, 2 * Scale>>

-----------------------------------------------------------------------------
(* C2 *)

\* C2: for two 4x4 operands the composed matrix is the matrix product
\* left x right: entry (i,j) is the sum over k of left[i][k] * right[k][j].
C2_MatrixProduct ==
    (DotDone /\ Is4x4(dotIn[1]) /\ Is4x4(dotIn[2]))
    => /\ dotOut[1].raised = "none"
       /\ dotOut[1].hasMat
       /\ Is4x4(dotOut[1].mat)
       /\ \A i, j \in 1..4 :
            LET l == dotIn[1].val
                r == dotIn[2].val
                e == dotOut[1].mat.val[i][j]
            IN  /\ IsWhole(e)
                /\ Whole(e) = Whole(l[i][1]) * Whole(r[1][j])
                              + Whole(l[i][2]) * Whole(r[2][j])
                              + Whole(l[i][3]) * Whole(r[3][j])
                              + Whole(l[i][4]) * Whole(r[4][j])

\* a product that differs from the element-wise product and from right x left
C2_Witness ==
    /\ DotDone
    /\ Is4x4(dotIn[1])
    /\ Is4x4(dotIn[2])
    /\ dotIn[1] = Gen(0)
    /\ dotIn[2] = Mat("z", 1, Some(90))
    /\ dotOut[1].hasMat
    /\ dotOut[1].mat.val[1][1] # FxMul(dotIn[1].val[1][1], dotIn[2].val[1][1])
    /\ dotOut[1].mat.val[1][1] # DotSeq(dotIn[2].val[1], Column(dotIn[1].val, 1))

-----------------------------------------------------------------------------
(* C3 *)

\* C3: the matrix of every validly constructed elementary transform, for any
\* link length, has bottom row [0,0,0,1]; for X, Y, Z its 3x3 block is
\* orthonormal with determinant 1 within the rounding tolerance 1e-4 (and
\* exactly so at the multiples of 90 degrees); for I the block is exactly
\* the 3x3 identity.
C3_ValidTransform ==
    (HTMBuilt /\ ValidJoint(htmIn))
    => /\ htmOut[1].hasMat
       /\ Is4x4(htmOut[1].mat)
       /\ BottomRowOk(htmOut[1].mat)
       /\ Upper(htmIn.matrixType) \in Revolute
            => /\ Orthonormal(Block(htmOut[1].mat), OrthoTol)
               /\ WNear(Det3(Block(htmOut[1].mat)), UnitCube, DetTol)
               /\ htmIn.theta[1] \in RightAngles => Homogeneous(htmOut[1].mat)
       /\ Upper(htmIn.matrixType) = "I" => Block(htmOut[1].mat) = Identity3

C3_Witness ==
    /\ HTMBuilt
    /\ htmIn.matrixType = "Z"
    /\ htmIn.theta = Some(150)
    /\ htmIn.segmentLength = (0 - 3) * Scale
    /\ htmOut[1].hasMat
    /\ ~Orthonormal(Block(htmOut[1].mat), 0)

-----------------------------------------------------------------------------
(* C4 *)

-----------------------------------------------------------------------------
(* C5 *)

\* C5: constructing an elementary transform with an axis code that is none
\* of X, Y, Z, I fails with an error surfaced to the caller and leaves no
\* object behind.
C5_UnrecognizedAxisFails ==
    (HTMBuilt /\ Upper(htmIn.matrixType) \notin Recognized)
    => /\ htmOut[1].raised # "none"
       /\ ~htmOut[1].hasMat

-----------------------------------------------------------------------------
(* C6 *)

\* C6: constructing with axis code I and an angle, or with X, Y or Z and no
\* angle, fails with an error, the same one in both cases, and produces no
\* matrix.
C6_AnglePresenceFails ==
    (HTMBuilt /\ Upper(htmIn.matrixType) \in Recognized /\ ~ValidJoint(htmIn))
    => /\ htmOut[1].raised # "none"
       /\ ~htmOut[1].hasMat

-----------------------------------------------------------------------------
(* C7 *)

\* C7: a composition one of whose operands is not exactly 4x4 fails with an
\* error and yields no composed matrix.
C7_Non4x4Fails ==
    (DotDone /\ ~(Is4x4(dotIn[1]) /\ Is4x4(dotIn[2])))
    => /\ dotOut[1].raised # "none"
       /\ ~dotOut[1].hasMat

-----------------------------------------------------------------------------
(* C8 *)

\* C8: at every point of the assembly the first frame is the world frame
\* with the identity matrix and, for i >= 1, frame i has a matrix, which is
\* the matrix of frame i-1 times the elementary transform of joint i.
C8_FramesAreWorldPoses ==
    /\ Len(frameList) >= 1
       => /\ frameList[1].hasMat
          /\ frameList[1].mat.val = Identity4
    /\ \A i \in 2..Len(frameList) :
          /\ frameList[i].hasMat
          /\ frameList[i - 1].hasMat
          /\ joints[i - 1].hasMat
          /\ frameList[i].mat = MatMul(frameList[i - 1].mat, joints[i - 1].mat)

\* the same for the frames that have a matrix: what main() does when every
\* joint is valid
FramesWithMatrixAreWorldPoses ==
    /\ Len(frameList) >= 1
       => /\ frameList[1].hasMat
          /\ frameList[1].mat.val = Identity4
    /\ \A i \in 2..Len(frameList) :
          frameList[i].hasMat
          => /\ frameList[i - 1].hasMat
             /\ joints[i - 1].hasMat
             /\ frameList[i].mat = MatMul(frameList[i - 1].mat, joints[i - 1].mat)

\* frames are appended one at a time and never removed, replaced or reordered
FrameListAppendOnly ==
    [][/\ Len(frameList') >= Len(frameList)
       /\ Len(frameList') <= Len(frameList) + 1
       /\ \A i \in 1..Len(frameList) : frameList'[i] = frameList[i]]_vars

-----------------------------------------------------------------------------
(* C9 *)

\* C9: the assembly halts at the first joint whose construction goes wrong:
\* no later joint is constructed, no frame is appended after it, and no
\* frame list is handed to the printer or the visualizer.
C9_HaltsOnFirstError ==
    \A k \in 1..Len(joints) :
        ~joints[k].hasMat
        => /\ Len(joints) = k
           /\ Len(frameList) <= k
           /\ shown = <<>>

-----------------------------------------------------------------------------
(* C10 *)

\* C10: for every Y-axis and every Z-axis elementary transform the
\* translation is the link length times the first column of the rotation
\* block (the rotated local X axis).
C10_LinkAlongRotatedX ==
    (HTMBuilt /\ ValidJoint(htmIn) /\ Upper(htmIn.matrixType) \in {"Y", "Z"})
    => \A i \in 1..3 :
          Translation(htmOut[1].mat)[i] =
             FxMul(htmIn.segmentLength, Block(htmOut[1].mat)[i][1])

\* the same for the Z, X and I transforms, where it holds
LinkAlongRotatedX_ExceptY ==
    (HTMBuilt /\ ValidJoint(htmIn) /\ Upper(htmIn.matrixType) \in {"Z", "X", "I"})
    => \A i \in 1..3 :
          Translation(htmOut[1].mat)[i] =
             FxMul(htmIn.segmentLength, Block(htmOut[1].mat)[i][1])

====
